---- MODULE Spec2Model ----
(***************************************************************************)
(* The git verification queue of pushmanager (pushmanager/core/git.py):    *)
(* GitQueue.request_queue, the git-queue worker thread running             *)
(* process_queue, and the verification pipeline update_request with its    *)
(* database reads and writes, mails and web hooks.                         *)
(***************************************************************************)
EXTENDS Integers, Sequences, FiniteSets, TLC

\* ------------------------------------------------------------- bounds
NumRequests == 3      \* rows of push_requests, ids 1..NumRequests
MaxJobs == 2          \* enqueue_request calls in one behaviour
MaxCallers == 2       \* callers of start_worker
MaxRefs == 2          \* (sha, ref) pairs one ls-remote prints
MaxEnvOps == 1        \* writes of other actors to push_requests

RequestIds == 1 .. NumRequests
Callers == 1 .. MaxCallers
\* the thread a caller's Thread(...).start() creates carries the caller's index
Threads == Callers

None == "None"
\* GitQueue.worker_thread = None
NoThread == 0
Shas == {"s1", "s2"}
GitOk == "git-ok"
GitError == "git-error"
\* Settings['git']['exclude_from_verification']
EXCLUDE_FROM_GIT_VERIFICATION == {"no-verify"}
\* the tags other parts of pushmanager put on a request while the queue works
OtherTags == EXCLUDE_FROM_GIT_VERIFICATION
\* stderr of a git ls-remote that fails
RemoteError == "repository not found"

VARIABLES
    db,               \* push_requests: id -> row, for the rows that exist
    request_queue,    \* GitQueue.request_queue, head first
    unfinished_tasks, \* Queue.unfinished_tasks (put increments, task_done decrements)
    worker_thread,    \* GitQueue.worker_thread: None or the Thread assigned
    callers,          \* position of every start_worker call
    worker,           \* per thread: position in process_queue and the job's locals
    enqueued,         \* history: ids in the order the put calls took effect
    handed,           \* history: ids in the order they were passed to update_request
    done_count,       \* history: number of task_done calls
    env_ops           \* history: number of writes by other actors

vars == << db, request_queue, unfinished_tasks, worker_thread, callers, worker,
           enqueued, handed, done_count, env_ops >>

\* ------------------------------------------------ pushmanager.core.util
add_to_tags_str(tags, tag) == tags \cup {tag}

del_from_tags_str(tags, tag) == tags \ {tag}

tags_contain(tags, search) == tags \cap search # {}

\* -------------------------------------------------------------- rows
UserOf(i) == IF i = 1 THEN "alice" ELSE IF i = 2 THEN "bob" ELSE "erin"

WatchersOf(i) == IF i = 1 THEN << "carol" >> ELSE << >>

\* _get_request / _get_request_with_sha returning None
NoReq == [ id |-> 0, user |-> None, watchers |-> << >>, branch |-> "",
           revision |-> None, tags |-> {}, state |-> None, reviewid |-> None ]

\* the rows a behaviour starts from: (branch, revision, tags, state, reviewid)
RowProfiles ==
    { << "feature", None, {GitError, "urgent"}, "added", "r42" >>,
      << "feature", "s1", {GitOk}, "added", None >>,
      << "feature", "s1", {GitOk}, "discarded", None >>,
      << "", None, {GitOk}, "added", None >>,
      << "feature", None, {"no-verify"}, "added", None >> }

InitRows(i) ==
    { [ id |-> i, user |-> UserOf(i), watchers |-> WatchersOf(i),
        branch |-> p[1], revision |-> p[2], tags |-> p[3], state |-> p[4],
        reviewid |-> p[5] ] : p \in RowProfiles }

\* ------------------------------------------------------- worker state
IdleJob == [ request_id |-> 0, req |-> NoReq, returncode |-> 0, sha |-> None,
             reason |-> None, dup |-> 0, outcome |-> None, mails |-> << >>, hooks |-> << >>,
             remote_calls |-> 0, updates |-> 0, advertised |-> None,
             bound_live |-> {}, bound_discarded |-> {} ]

Unborn == [ pc |-> "unborn" ] @@ IdleJob

Init ==
    /\ db \in [ RequestIds -> UNION { InitRows(i) : i \in RequestIds } ]
    /\ \A i \in RequestIds : db[i].id = i
    /\ request_queue = << >>
    /\ unfinished_tasks = 0
    /\ worker_thread = NoThread
    /\ callers = [ c \in Callers |-> "idle" ]
    /\ worker = [ t \in Threads |-> Unborn ]
    /\ enqueued = << >>
    /\ handed = << >>
    /\ done_count = 0
    /\ env_ops = 0

\* ---------------------------------------------------------- git, mails
\* what the git ls-remote child process can end with
RefNames(branch) == { "refs/heads/" \o branch, "refs/heads/wip/" \o branch }

RefLists(branch) ==
    UNION { [ 1 .. n -> Shas \X RefNames(branch) ] : n \in 0 .. MaxRefs }

ProcResults(branch) ==
    { [ returncode |-> 128, stdout |-> << >>, stderr |-> RemoteError ] }
    \cup { [ returncode |-> 0, stdout |-> refs, stderr |-> "" ] :
             refs \in RefLists(branch) }

\* GitCommand.run: raises GitException on a non-zero return code
GitCommandRun(proc) ==
    IF proc.returncode # 0
    THEN [ raised |-> TRUE, rc |-> proc.returncode, stdout |-> proc.stdout,
           stderr |-> proc.stderr ]
    ELSE [ raised |-> FALSE, rc |-> proc.returncode, stdout |-> proc.stdout,
           stderr |-> proc.stderr ]

\* whether the output of git ls-remote lists refs/heads/<branch>
Advertised(refs, branch) ==
    \E k \in 1 .. Len(refs) : refs[k][2] = "refs/heads/" \o branch

\* mutant: the first ref whose name ends with the branch name is taken
RECURSIVE BranchShaBySuffix(_, _)
BranchShaBySuffix(refs, branch) ==
    IF refs = << >> THEN None
    ELSE IF Head(refs)[2] \in { "refs/heads/" \o branch, "refs/heads/wip/" \o branch }
    THEN Head(refs)[1]
    ELSE BranchShaBySuffix(Tail(refs), branch)

\* for sha, ref in refs: if ref == 'refs/heads/%s' % req['branch']: return sha
RECURSIVE BranchSha(_, _)
BranchSha(refs, branch) ==
    IF refs = << >> THEN None
    ELSE IF Head(refs)[2] = "refs/heads/" \o branch THEN Head(refs)[1]
    ELSE BranchSha(Tail(refs), branch)

\* mutant: the exclusion tags are not looked at
NeverExcluded(request) == FALSE

request_is_excluded_from_git_verification(request) ==
    tags_contain(request.tags, EXCLUDE_FROM_GIT_VERIFICATION)

\* MailQueue.enqueue_user_email(recipients, msg, subject), as one record
Mail(kind, to, subject, req, text) ==
    [ kind |-> kind, to |-> to, subject |-> << subject, req.user >>,
      id |-> req.id, revision |-> req.revision, text |-> text ]

QueryFailedMail(req, stderr) ==
    Mail("query-failed", << req.user >>, "[push error]", req, stderr)

BranchNotFoundMail(req) ==
    Mail("branch-not-found", << req.user >>, "[push error]", req, req.branch)

SuccessRecipients(updated_request) == << updated_request.user >>

SuccessMail(updated_request) ==
    Mail("verified", SuccessRecipients(updated_request), "[push]",
         updated_request, updated_request.revision)

FailureMail(request, failure_msg) ==
    Mail("not-verified", << request.user >>, "[push]", request, failure_msg)

\* webhook_req(left_type, left_token, right_type, right_token)
webhook_req(left_type, left_token, right_type, right_token) ==
    [ left_type |-> left_type, left_token |-> left_token,
      right_type |-> right_type, right_token |-> right_token ]

SuccessHooks(updated_request) ==
    << webhook_req("pushrequest", updated_request.id, "ref", updated_request.branch),
       webhook_req("pushrequest", updated_request.id, "commit",
                   updated_request.revision) >>
    \o (IF updated_request.reviewid # None
        THEN << webhook_req("pushrequest", updated_request.id, "review",
                            updated_request.reviewid) >>
        ELSE << >>)

\* mutant: git-ok is added and git-error is left in place
SuccessTagsKeepError(tags) == add_to_tags_str(tags, GitOk)

SuccessTags(tags) == del_from_tags_str(add_to_tags_str(tags, GitOk), GitError)

FailureTags(tags) == del_from_tags_str(add_to_tags_str(tags, GitError), GitOk)

\* ------------------------------------------------------- start_worker
\* mutant: worker_thread is not tested, every call starts a thread
StartWorkerUnguarded(c) ==
    /\ callers[c] = "idle"
    /\ \A o \in Callers : o < c => callers[o] = "returned"
    /\ callers' = [ callers EXCEPT ![c] = "returned" ]
    /\ worker_thread' = c
    /\ worker' = [ worker EXCEPT ![c].pc = "sleep" ]
    /\ UNCHANGED << db, request_queue, unfinished_tasks, enqueued, handed,
                    done_count, env_ops >>

\* start_worker as the application calls it: one call at a time, caller after caller
StartWorker(c) ==
    /\ callers[c] = "idle"
    /\ \A o \in Callers : o < c => callers[o] = "returned"
    /\ callers' = [ callers EXCEPT ![c] = "returned" ]
    /\ IF worker_thread # NoThread
       THEN UNCHANGED << worker_thread, worker >>
       ELSE /\ worker_thread' = c
            /\ worker' = [ worker EXCEPT ![c].pc = "sleep" ]
    /\ UNCHANGED << db, request_queue, unfinished_tasks, enqueued, handed,
                    done_count, env_ops >>

\* start_worker called from several threads at once, statement by statement:
\* the test of worker_thread (lines 96-97) ...
StartWorkerCheck(c) ==
    /\ callers[c] = "idle"
    /\ callers' = [ callers EXCEPT ![c] =
                      IF worker_thread # NoThread THEN "returned" ELSE "checked" ]
    /\ UNCHANGED << db, request_queue, unfinished_tasks, worker_thread, worker,
                    enqueued, handed, done_count, env_ops >>

\* ... and the assignment of worker_thread and the start of the thread (98-100)
StartWorkerSpawn(c) ==
    /\ callers[c] = "checked"
    /\ callers' = [ callers EXCEPT ![c] = "returned" ]
    /\ worker_thread' = c
    /\ worker' = [ worker EXCEPT ![c].pc = "sleep" ]
    /\ UNCHANGED << db, request_queue, unfinished_tasks, enqueued, handed,
                    done_count, env_ops >>

\* ----------------------------------------------------- enqueue_request
EnqueueRequest(request_id) ==
    /\ Len(enqueued) < MaxJobs
    /\ request_queue' = Append(request_queue, request_id)
    /\ unfinished_tasks' = unfinished_tasks + 1
    /\ enqueued' = Append(enqueued, request_id)
    /\ UNCHANGED << db, worker_thread, callers, worker, handed, done_count, env_ops >>

\* ------------------------------------------------------- process_queue
\* time.sleep(1)
Throttle(t) ==
    /\ worker[t].pc = "sleep"
    /\ worker' = [ worker EXCEPT ![t].pc = "get" ]
    /\ UNCHANGED << db, request_queue, unfinished_tasks, worker_thread, callers,
                    enqueued, handed, done_count, env_ops >>

\* mutant: the queue hands out its newest entry
DequeueNewest(t) ==
    /\ worker[t].pc = "get"
    /\ request_queue # << >>
    /\ request_queue' = SubSeq(request_queue, 1, Len(request_queue) - 1)
    /\ worker' = [ worker EXCEPT ![t] =
                     [ pc |-> "load" ] @@
                     [ IdleJob EXCEPT !.request_id = request_queue[Len(request_queue)] ] ]
    /\ handed' = Append(handed, request_queue[Len(request_queue)])
    /\ UNCHANGED << db, unfinished_tasks, worker_thread, callers, enqueued,
                    done_count, env_ops >>

\* request_id = cls.request_queue.get(), then the call of update_request
Dequeue(t) ==
    /\ worker[t].pc = "get"
    /\ request_queue # << >>
    /\ request_queue' = Tail(request_queue)
    /\ worker' = [ worker EXCEPT ![t] =
                     [ pc |-> "load" ] @@
                     [ IdleJob EXCEPT !.request_id = Head(request_queue) ] ]
    /\ handed' = Append(handed, Head(request_queue))
    /\ UNCHANGED << db, unfinished_tasks, worker_thread, callers, enqueued,
                    done_count, env_ops >>

\* an exception leaves update_request for the try block of process_queue: the
\* locals of update_request are gone, what the job did so far stays done
Raise(job, exception) ==
    [ IdleJob EXCEPT !.request_id = job.request_id, !.reason = exception,
                     !.returncode = job.returncode,
                     !.mails = job.mails, !.hooks = job.hooks,
                     !.remote_calls = job.remote_calls, !.updates = job.updates ]
    @@ [ pc |-> "except" ]

\* ------------------------------------------------------- update_request
\* _get_request: SELECT ... WHERE id = request_id, first row or None
GetRequest(rows, request_id) ==
    IF request_id \in DOMAIN rows THEN rows[request_id] ELSE NoReq

\* mutant: the branch is not tested before the remote is asked
AfterLoadNoBranchTest(job, req) ==
    IF req = NoReq
    THEN [ job EXCEPT !.pc = "finally", !.outcome = "notfound" ]
    ELSE IF request_is_excluded_from_git_verification(req)
    THEN [ job EXCEPT !.pc = "finally", !.req = req, !.outcome = "excluded" ]
    ELSE [ job EXCEPT !.pc = "lsremote", !.req = req ]

\* update_request from its first line to the call of _get_branch_sha_from_repo
AfterLoad(job, req) ==
    IF req = NoReq
    THEN [ job EXCEPT !.pc = "finally", !.outcome = "notfound" ]
    ELSE IF request_is_excluded_from_git_verification(req)
    THEN [ job EXCEPT !.pc = "finally", !.req = req, !.outcome = "excluded" ]
    ELSE IF req.branch = ""
    THEN [ job EXCEPT !.pc = "fail_update", !.req = req, !.reason = "no-branch" ]
    ELSE [ job EXCEPT !.pc = "lsremote", !.req = req ]

Load(t) ==
    /\ worker[t].pc = "load"
    /\ \E success \in BOOLEAN :
         worker' = [ worker EXCEPT ![t] =
                       IF success
                       THEN AfterLoad(@, GetRequest(db, @.request_id))
                       ELSE Raise(@, "AssertionError") ]
    /\ UNCHANGED << db, request_queue, unfinished_tasks, worker_thread, callers,
                    enqueued, handed, done_count, env_ops >>

\* _get_branch_sha_from_repo, then update_request's test of the sha it returns
AfterLsRemote(job, proc) ==
    LET run == GitCommandRun(proc)
        called == [ job EXCEPT !.remote_calls = @ + 1, !.returncode = run.rc,
                               !.advertised = IF Advertised(run.stdout, job.req.branch)
                                               THEN "yes" ELSE "no" ]
        sha == BranchSha(run.stdout, job.req.branch)
    IN  IF run.raised
        THEN Raise(called, "GitException")
        ELSE IF run.rc # 0
        THEN [ called EXCEPT !.pc = "fail_update", !.reason = "no-revision",
                             !.mails = Append(@, QueryFailedMail(job.req, run.stderr)) ]
        ELSE IF sha = None
        THEN [ called EXCEPT !.pc = "fail_update", !.reason = "no-revision",
                             !.mails = Append(@, BranchNotFoundMail(job.req)) ]
        ELSE [ called EXCEPT !.pc = "dupcheck", !.sha = sha ]

LsRemote(t) ==
    /\ worker[t].pc = "lsremote"
    /\ \E proc \in ProcResults(worker[t].req.branch) :
         worker' = [ worker EXCEPT ![t] = AfterLsRemote(@, proc) ]
    /\ UNCHANGED << db, request_queue, unfinished_tasks, worker_thread, callers,
                    enqueued, handed, done_count, env_ops >>

RowsWithSha(rows, sha) == { i \in DOMAIN rows : rows[i].revision = sha }

\* _get_request_with_sha: SELECT ... WHERE revision = sha and first(); the query
\* has no ORDER BY, so the row it returns is any of the matching ones
GetRequestWithSha(rows, sha) ==
    IF RowsWithSha(rows, sha) = {} THEN { NoReq }
    ELSE { rows[i] : i \in RowsWithSha(rows, sha) }

\* duplicate_req and 'state' in duplicate_req and not duplicate_req['state'] == "discarded"
IsDuplicate(duplicate_req, request_id) ==
    duplicate_req # NoReq /\ duplicate_req.state # "discarded"

AfterDupCheck(job, duplicate_req, rows) ==
    LET seen == [ job EXCEPT
                    !.bound_live = { i \in RowsWithSha(rows, job.sha) :
                                       rows[i].state # "discarded" },
                    !.bound_discarded = { i \in RowsWithSha(rows, job.sha) :
                                            rows[i].state = "discarded" } ]
    IN  IF IsDuplicate(duplicate_req, job.request_id)
        THEN [ seen EXCEPT !.pc = "fail_update", !.reason = "duplicate",
                           !.dup = duplicate_req.id ]
        ELSE [ seen EXCEPT !.pc = "ok_update" ]

DupCheck(t) ==
    /\ worker[t].pc = "dupcheck"
    /\ \E success \in BOOLEAN :
         \E duplicate_req \in GetRequestWithSha(db, worker[t].sha) :
           worker' = [ worker EXCEPT ![t] =
                         IF success THEN AfterDupCheck(@, duplicate_req, db)
                         ELSE Raise(@, "AssertionError") ]
    /\ UNCHANGED << db, request_queue, unfinished_tasks, worker_thread, callers,
                    enqueued, handed, done_count, env_ops >>

\* UPDATE push_requests SET updated_values WHERE id = req['id']
UpdateRow(row, updated_values) ==
    [ f \in DOMAIN row |->
        IF f \in DOMAIN updated_values THEN updated_values[f] ELSE row[f] ]

UpdatedRows(rows, id, updated_values) ==
    IF id \in DOMAIN rows
    THEN [ rows EXCEPT ![id] = UpdateRow(@, updated_values) ]
    ELSE rows

\* update_request_successful: the mail and the web hooks
update_request_successful(job, updated_request) ==
    [ job EXCEPT !.mails = Append(@, SuccessMail(updated_request)),
                 !.hooks = @ \o SuccessHooks(updated_request),
                 !.outcome = "succeeded" ]

\* mutant: the result of _update_request is not tested, the loaded row is used
AfterCommitUntested(job, updated_request) ==
    IF updated_request # NoReq
    THEN [ update_request_successful(job, updated_request) EXCEPT
             !.pc = "finally", !.updates = @ + 1 ]
    ELSE [ update_request_successful(job, job.req) EXCEPT !.pc = "finally" ]

\* update_request from updated_tags to its end, given the row _update_request re-read
AfterCommit(job, updated_request) ==
    IF updated_request # NoReq
    THEN [ update_request_successful(job, updated_request) EXCEPT
             !.pc = "finally", !.updates = @ + 1 ]
    ELSE [ job EXCEPT !.pc = "finally", !.outcome = "integrity" ]

CommitSuccess(t) ==
    /\ worker[t].pc = "ok_update"
    /\ LET job == worker[t]
           updated_values == [ revision |-> job.sha,
                               tags |-> SuccessTags(job.req.tags) ]
           rows == UpdatedRows(db, job.req.id, updated_values)
       IN  \E success \in BOOLEAN :
             IF success
             THEN /\ db' = rows
                  /\ worker' = [ worker EXCEPT ![t] =
                                   AfterCommit(job, GetRequest(rows, job.req.id)) ]
             ELSE /\ db' = db
                  /\ worker' = [ worker EXCEPT ![t] = Raise(job, "AssertionError") ]
    /\ UNCHANGED << request_queue, unfinished_tasks, worker_thread, callers,
                    enqueued, handed, done_count, env_ops >>

\* mutant: the failure update also clears the revision
FailureValuesClearRevision(request) ==
    [ tags |-> FailureTags(request.tags), revision |-> None ]

\* updated_values = {'tags': updated_tags}
FailureValues(request) == [ tags |-> FailureTags(request.tags) ]

\* update_request_failure after _update_request returned updated_request
AfterFailure(job, updated_request) ==
    [ job EXCEPT !.pc = "finally", !.outcome = "failed",
                 !.updates = IF updated_request # NoReq THEN @ + 1 ELSE @,
                 !.mails = Append(@, FailureMail(job.req, job.reason)) ]

UpdateRequestFailure(t) ==
    /\ worker[t].pc = "fail_update"
    /\ LET job == worker[t]
           updated_values == FailureValues(job.req)
           rows == UpdatedRows(db, job.req.id, updated_values)
       IN  \E success \in BOOLEAN :
             IF success
             THEN /\ db' = rows
                  /\ worker' = [ worker EXCEPT ![t] =
                                   AfterFailure(job, GetRequest(rows, job.req.id)) ]
             ELSE /\ db' = db
                  /\ worker' = [ worker EXCEPT ![t] = Raise(job, "AssertionError") ]
    /\ UNCHANGED << request_queue, unfinished_tasks, worker_thread, callers,
                    enqueued, handed, done_count, env_ops >>

\* mutant: the exception is not caught and ends the thread
Uncaught(job) == [ job EXCEPT !.pc = "dead", !.outcome = "exception" ]

\* mutant: the exception handler goes back to the top of the loop, past finally
CaughtPastFinally(job) == [ pc |-> "sleep" ] @@ IdleJob

\* except Exception: logging.error('THREAD ERROR:', exc_info=True)
Caught(job) == [ job EXCEPT !.pc = "finally", !.outcome = "exception" ]

CatchException(t) ==
    /\ worker[t].pc = "except"
    /\ worker' = [ worker EXCEPT ![t] = Caught(@) ]
    /\ UNCHANGED << db, request_queue, unfinished_tasks, worker_thread, callers,
                    enqueued, handed, done_count, env_ops >>

\* mutant: the loop is left after the first job
\* mutant: after task_done the loop goes straight back to get(), without sleeping
TaskDoneNoSleep(t) ==
    /\ worker[t].pc = "finally"
    /\ unfinished_tasks' = unfinished_tasks - 1
    /\ done_count' = done_count + 1
    /\ worker' = [ worker EXCEPT ![t] = [ pc |-> "get" ] @@ IdleJob ]
    /\ UNCHANGED << db, request_queue, worker_thread, callers, enqueued, handed,
                    env_ops >>

TaskDoneAndReturn(t) ==
    /\ worker[t].pc = "finally"
    /\ unfinished_tasks' = unfinished_tasks - 1
    /\ done_count' = done_count + 1
    /\ worker' = [ worker EXCEPT ![t] = [ pc |-> "dead" ] @@ IdleJob ]
    /\ UNCHANGED << db, request_queue, worker_thread, callers, enqueued, handed,
                    env_ops >>

\* finally: cls.request_queue.task_done(), and back to the top of the loop
TaskDone(t) ==
    /\ worker[t].pc = "finally"
    /\ unfinished_tasks' = unfinished_tasks - 1
    /\ done_count' = done_count + 1
    /\ worker' = [ worker EXCEPT ![t] = [ pc |-> "sleep" ] @@ IdleJob ]
    /\ UNCHANGED << db, request_queue, worker_thread, callers, enqueued, handed,
                    env_ops >>

\* ------------------------------------------------------- other actors
\* A write of another actor is observed by the git queue only through the reads
\* and writes of a job, so it is taken while a job is between get and task_done.
JobInFlight ==
    \E t \in Threads :
      worker[t].pc \in {"load", "lsremote", "dupcheck", "ok_update", "fail_update"}

\* another part of pushmanager adds a tag to a request
OtherActorAddTag(i, tag) ==
    /\ env_ops < MaxEnvOps
    /\ JobInFlight
    /\ i \in DOMAIN db
    /\ tag \notin db[i].tags
    /\ db' = [ db EXCEPT ![i].tags = add_to_tags_str(@, tag) ]
    /\ env_ops' = env_ops + 1
    /\ UNCHANGED << request_queue, unfinished_tasks, worker_thread, callers, worker,
                    enqueued, handed, done_count >>

\* another part of pushmanager deletes a request
OtherActorDelete(i) ==
    /\ env_ops < MaxEnvOps
    /\ JobInFlight
    /\ i \in DOMAIN db
    /\ db' = [ j \in DOMAIN db \ {i} |-> db[j] ]
    /\ env_ops' = env_ops + 1
    /\ UNCHANGED << request_queue, unfinished_tasks, worker_thread, callers, worker,
                    enqueued, handed, done_count >>

Next ==
    \/ \E c \in Callers : StartWorker(c)
    \/ \E i \in RequestIds : EnqueueRequest(i)
    \/ \E t \in Threads : Throttle(t)
    \/ \E t \in Threads : Dequeue(t)
    \/ \E t \in Threads : Load(t)
    \/ \E t \in Threads : LsRemote(t)
    \/ \E t \in Threads : DupCheck(t)
    \/ \E t \in Threads : CommitSuccess(t)
    \/ \E t \in Threads : UpdateRequestFailure(t)
    \/ \E t \in Threads : CatchException(t)
    \/ \E t \in Threads : TaskDone(t)
    \/ \E i \in RequestIds, tag \in OtherTags : OtherActorAddTag(i, tag)
    \/ \E i \in RequestIds : OtherActorDelete(i)

Spec == Init /\ [][Next]_vars

\* the steps of the git-queue thread t
WorkerStep(t) ==
    \/ Throttle(t)
    \/ Dequeue(t)
    \/ Load(t)
    \/ LsRemote(t)
    \/ DupCheck(t)
    \/ CommitSuccess(t)
    \/ UpdateRequestFailure(t)
    \/ CatchException(t)
    \/ TaskDone(t)

\* a started thread keeps being scheduled, and the calls it makes return
Fairness == \A t \in Threads : WF_vars(WorkerStep(t))

\* the databases the liveness properties are checked from: any first request,
\* the others verified and not discarded
FairInit ==
    /\ Init
    /\ \A i \in RequestIds \ {1} : db[i].revision # None /\ db[i].state = "added"

FairSpec == FairInit /\ [][Next]_vars /\ Fairness

LiveVerified(row) ==
    row.state # "discarded" /\ GitOk \in row.tags /\ row.revision # None

NoTwoLiveVerifiedShareRevision ==
    \A i, j \in DOMAIN db :
        (i # j /\ LiveVerified(db[i]) /\ LiveVerified(db[j]))
        => db[i].revision # db[j].revision

\* start_worker called concurrently: the databases start with every request
\* unverified
RaceInit ==
    /\ Init
    /\ \A i \in RequestIds : db[i].revision = None /\ db[i].branch # ""
                             /\ db[i].tags \cap EXCLUDE_FROM_GIT_VERIFICATION = {}

RaceNext ==
    \/ \E c \in Callers : StartWorkerCheck(c)
    \/ \E c \in Callers : StartWorkerSpawn(c)
    \/ \E i \in RequestIds : EnqueueRequest(i)
    \/ \E t \in Threads : Throttle(t)
    \/ \E t \in Threads : Dequeue(t)
    \/ \E t \in Threads : Load(t)
    \/ \E t \in Threads : LsRemote(t)
    \/ \E t \in Threads : DupCheck(t)
    \/ \E t \in Threads : CommitSuccess(t)
    \/ \E t \in Threads : UpdateRequestFailure(t)
    \/ \E t \in Threads : CatchException(t)
    \/ \E t \in Threads : TaskDone(t)
    \/ \E i \in RequestIds, tag \in OtherTags : OtherActorAddTag(i, tag)
    \/ \E i \in RequestIds : OtherActorDelete(i)

RaceSpec == RaceInit /\ [][RaceNext]_vars

\* the git queue started on a database in which no two live requests carry
\* git-ok with the same revision
UniqueInit == Init /\ NoTwoLiveVerifiedShareRevision

UniqueSpec == UniqueInit /\ [][Next]_vars

\* ------------------------------------------------------------ claims
\* a job whose update_request has ended and whose task_done is still to come
Ended(t) == worker[t].pc = "finally"

OtherIds(job, ids) == ids \ {job.request_id}

HasOkOnly(row) == GitOk \in row.tags /\ GitError \notin row.tags

HasErrorOnly(row) == GitError \in row.tags /\ GitOk \notin row.tags

Range(seq) == { seq[k] : k \in 1 .. Len(seq) }

ExpectedHooks(job, row) ==
    { webhook_req("pushrequest", job.request_id, "ref", job.req.branch),
      webhook_req("pushrequest", job.request_id, "commit", job.sha) }
    \cup (IF row.reviewid # None
          THEN { webhook_req("pushrequest", job.request_id, "review", row.reviewid) }
          ELSE {})

\* C1: a job whose request exists, is not excluded and has a non-empty branch that
\* the remote resolves to S, with no other non-discarded request bound to S, ends
\* with revision = S, git-ok and no git-error on the request, exactly one success
\* mail, to the owner only, and the web hooks (ref, branch), (commit, S) and, if and
\* only if reviewid is set, (review, reviewid).
C1_SuccessWhenNoOtherBinding ==
    \A t \in Threads :
      LET job == worker[t] IN
      ( /\ Ended(t)
        /\ job.sha # None
        /\ OtherIds(job, job.bound_live) = {}
        /\ job.request_id \in DOMAIN db )
      => /\ db[job.request_id].revision = job.sha
         /\ HasOkOnly(db[job.request_id])
         /\ Len(job.mails) = 1
         /\ job.mails[1].kind = "verified"
         /\ job.mails[1].to = << job.req.user >>
         /\ Range(job.hooks) = ExpectedHooks(job, db[job.request_id])

\* C2: a job whose resolved commit S is the revision of another request that is
\* not discarded fails as a duplicate, whichever rows are bound to S: revision is
\* left as it was, git-error is present and git-ok is absent.
C2_DuplicateAlwaysFails ==
    \A t \in Threads :
      LET job == worker[t] IN
      ( /\ Ended(t)
        /\ job.sha # None
        /\ OtherIds(job, job.bound_live) # {}
        /\ job.request_id \in DOMAIN db )
      => /\ job.outcome = "failed"
         /\ job.reason = "duplicate"
         /\ db[job.request_id].revision = job.req.revision
         /\ HasErrorOnly(db[job.request_id])

\* C3: re-verifying a request that carries git-ok and revision S, whose branch
\* still resolves to S and whose revision no other request shares, ends with
\* revision S, git-ok present and git-error absent.
C3_ReverifyKeepsOk ==
    \A t \in Threads :
      LET job == worker[t] IN
      ( /\ Ended(t)
        /\ job.sha # None
        /\ job.req.revision = job.sha
        /\ GitOk \in job.req.tags
        /\ OtherIds(job, job.bound_live \cup job.bound_discarded) = {}
        /\ job.request_id \in DOMAIN db )
      => /\ job.outcome = "succeeded"
         /\ db[job.request_id].revision = job.sha
         /\ HasOkOnly(db[job.request_id])

\* C4: when the git ls-remote process of a job exits non-zero, the job ends as a
\* handled failure: git-error is put on the request and git-ok taken off, the
\* owner gets a mail with the raw error text, and no exception reaches the worker
\* loop.
C4_RemoteFailureHandled ==
    \A t \in Threads :
      LET job == worker[t] IN
      ( Ended(t) /\ job.returncode # 0 )
      => /\ job.outcome = "failed"
         /\ \E k \in 1 .. Len(job.mails) : job.mails[k].text = RemoteError
         /\ job.request_id \in DOMAIN db => HasErrorOnly(db[job.request_id])

EmptyBranchEffects(job) ==
    /\ job.remote_calls = 0
    /\ Len(job.mails) = 1
    /\ job.mails[1].kind = "not-verified"
    /\ job.mails[1].to = << job.req.user >>
    /\ job.request_id \in DOMAIN db => HasErrorOnly(db[job.request_id])

C6_SkippedJobHasNoEffect ==
    \A t \in Threads :
      LET job == worker[t] IN
      ( /\ Ended(t)
        /\ job.outcome # "exception"
        /\ job.req = NoReq \/ tags_contain(job.req.tags, EXCLUDE_FROM_GIT_VERIFICATION) )
      => /\ job.outcome \in {"notfound", "excluded"}
         /\ job.remote_calls = 0
         /\ job.updates = 0
         /\ job.mails = << >>
         /\ job.hooks = << >>

C6_Witness ==
    \E t \in Threads :
      /\ Ended(t)
      /\ worker[t].outcome = "excluded"
      /\ worker[t].req.branch # ""

\* C7: when a job raises an exception the worker loop catches it and goes on:
\* every job enqueued by then is still dequeued and processed to its task_done.
C7_ExceptionDoesNotStopLoop ==
    \A t \in Threads : \A n \in 1 .. MaxJobs :
      (worker[t].pc = "except" /\ Len(enqueued) >= n)
        ~> (worker[t].pc # "except" /\ done_count >= n)

C7_Witness ==
    \E t \in Threads :
      /\ Ended(t)
      /\ worker[t].outcome = "exception"
      /\ worker[t].reason = "AssertionError"
      /\ worker[t].updates = 0
      /\ request_queue # << >>

\* C8: once the worker is started, every enqueued request id is eventually
\* dequeued and its job reaches a terminal outcome and task_done; no job stays
\* in the queue forever.
C8_EveryJobEnds ==
    \A n \in 1 .. MaxJobs :
      (worker_thread # NoThread /\ Len(enqueued) >= n) ~> (done_count >= n)

C8_Witness ==
    /\ worker_thread # NoThread
    /\ Len(enqueued) = MaxJobs
    /\ done_count = MaxJobs
    /\ request_queue = << >>

\* C9: the ids handed to update_request are a prefix of the ids in the order
\* their enqueue calls took effect, the rest is still queued in that order:
\* first in first out, nothing lost, each entry consumed once.
C9_FifoExactlyOnce == enqueued = handed \o request_queue

C9_Witness ==
    /\ Len(handed) = MaxJobs
    /\ handed[1] = handed[MaxJobs]
    /\ done_count = MaxJobs

Born(w) == { t \in Threads : w[t].pc # "unborn" }

\* C10: the first start_worker call starts exactly one thread; a call made after
\* an earlier call returned starts no thread and leaves worker_thread and the
\* queue as they are.
C10_StartWorkerIdempotent ==
    [][ \A c \in Callers :
          (callers[c] = "idle" /\ callers'[c] = "returned")
          => IF \E o \in Callers : callers[o] = "returned"
             THEN /\ worker_thread' = worker_thread
                  /\ request_queue' = request_queue
                  /\ worker' = worker
             ELSE /\ Cardinality(Born(worker')) = 1
                  /\ Born(worker) = {}
                  /\ worker_thread' \in Born(worker') ]_vars

C10_Witness ==
    /\ \A c \in Callers : callers[c] = "returned"
    /\ Cardinality(Born(worker)) = 1
    /\ worker_thread \in Born(worker)

InPipeline(t) ==
    worker[t].pc \in {"load", "lsremote", "dupcheck", "ok_update", "fail_update",
                      "except", "finally"}

\* C11: whatever the interleaving of concurrent start_worker calls and
\* enqueue_request calls, at most one worker thread exists and at most one job's
\* update_request is in progress.
C11_SingleWorker ==
    /\ Cardinality(Born(worker)) <= 1
    /\ Cardinality({ t \in Threads : InPipeline(t) }) <= 1

\* C12: no request carries git-ok and git-error together: every tag value the
\* pipeline writes holds exactly one of the two markers.
C12_MarkersExclusive ==
    \A i \in DOMAIN db : ~ (GitOk \in db[i].tags /\ GitError \in db[i].tags)

\* a request that carried git-error was verified and now carries git-ok alone
C12_Witness ==
    \E t \in Threads :
        /\ Ended(t)
        /\ worker[t].outcome = "succeeded"
        /\ GitError \in worker[t].req.tags
        /\ worker[t].request_id \in DOMAIN db
        /\ HasOkOnly(db[worker[t].request_id])

\* C13: the worker sleeps between the end of one update_request and the next
\* get(): a job is only dequeued by a thread that has slept since its previous
\* job ended, also when jobs are waiting in the queue.
C13_ThrottleBeforeEveryJob ==
    [][ \A t \in Threads :
          /\ (Ended(t) /\ worker'[t].pc # "finally") => worker'[t].pc = "sleep"
          /\ (worker[t].pc = "sleep" /\ worker'[t].pc # "sleep")
                => (worker'[t].pc = "get" /\ handed' = handed)
          /\ (Len(handed') > Len(handed) /\ worker'[t].pc = "load")
                => worker[t].pc = "get" ]_vars

\* the first job has ended, another one waits in the queue, and the worker sleeps
C13_Witness ==
    \E t \in Threads :
        /\ worker[t].pc = "sleep"
        /\ done_count = 1
        /\ request_queue # << >>

C15_RevisionOnlyBySuccess ==
    [][ \A i \in DOMAIN db \cap DOMAIN db' :
          db'[i].revision # db[i].revision
          => \E t \in Threads :
                /\ worker[t].pc = "ok_update"
                /\ worker[t].request_id = i
                /\ worker[t].sha # None
                /\ worker[t].reason = None
                /\ db'[i].revision = worker[t].sha
                /\ worker'[t].outcome = "succeeded" ]_vars

\* a job gave its request a revision it did not have
C15_Witness ==
    \E t \in Threads :
        /\ Ended(t)
        /\ worker[t].outcome = "succeeded"
        /\ worker[t].req.revision # worker[t].sha
        /\ worker[t].request_id \in DOMAIN db
        /\ db[worker[t].request_id].revision = worker[t].sha

\* C16: when the success update and its re-read find no row (the request was
\* deleted after the job loaded it), the job sends no mail and fires no web hook.
C16_VanishedRowNotNotified ==
    \A t \in Threads :
        LET job == worker[t] IN
        (Ended(t) /\ job.sha # None /\ job.reason = None /\ job.updates = 0)
        => /\ job.mails = << >>
           /\ job.hooks = << >>
           /\ job.outcome = "integrity"

\* the request was deleted between the load and the success update
C16_Witness ==
    \E t \in Threads :
        /\ Ended(t)
        /\ worker[t].outcome = "integrity"
        /\ worker[t].req # NoReq
        /\ worker[t].sha # None
        /\ worker[t].request_id \notin DOMAIN db
        /\ worker[t].mails = << >>

\* C17: when the failure update (the one adding git-error) matches no row, the
\* job sends the owner no failure mail.
C17_MissedFailureUpdateNotMailed ==
    \A t \in Threads :
        LET job == worker[t] IN
        (Ended(t) /\ job.outcome = "failed" /\ job.updates = 0)
        => \A k \in 1 .. Len(job.mails) : job.mails[k].kind # "not-verified"

\* C18: task_done is called once for every job the worker took from the queue,
\* after its update_request ended, whether it returned or raised: the calls
\* never outnumber the jobs taken, and every job taken is either still in the
\* hands of a thread or has had its one call.
C18_TaskDoneOncePerJob ==
    /\ done_count <= Len(handed)
    /\ Len(handed) - done_count = Cardinality({ t \in Threads : InPipeline(t) })
    /\ unfinished_tasks = Len(enqueued) - done_count
    /\ \A t \in Threads :
          worker[t].pc \in {"sleep", "get"} => done_count = Len(handed)

\* one job is done and signalled, the second still waits in the queue
C18_Witness ==
    \E t \in Threads :
        /\ worker[t].pc = "get"
        /\ done_count = 1
        /\ Len(handed) = 1
        /\ unfinished_tasks = 1

\* C19: started on a database where it holds, and with no other actor changing
\* request states, the git queue never leaves two distinct requests that are
\* not discarded carrying git-ok with the same revision.
C19_LiveRevisionsUnique == NoTwoLiveVerifiedShareRevision

\* C20: a job sends the owner at most one mail: exactly one failure mail when
\* it ends as a failure (empty branch, branch not found, duplicate), exactly
\* one success mail when it succeeds.
C20_AtMostOneMailPerJob ==
    \A t \in Threads :
        LET job == worker[t] IN
        /\ Len(job.mails) <= 1
        /\ (Ended(t) /\ job.outcome = "failed")
              => (Len(job.mails) = 1 /\ job.mails[1].kind = "not-verified")
        /\ (Ended(t) /\ job.outcome = "succeeded")
              => (Len(job.mails) = 1 /\ job.mails[1].kind = "verified")

OtherTagsOf(row) == row.tags \ {GitOk, GitError}

\* C21: the update of a job changes only the git-ok and git-error markers of
\* a row: every other tag on the row when the update runs is on it afterwards,
\* also a tag another actor added after the job loaded the request.
C21_TagWriteKeepsOtherTags ==
    [][ (\E t \in Threads :
            /\ worker[t].pc \in {"ok_update", "fail_update"}
            /\ worker'[t].pc # worker[t].pc)
        => \A i \in DOMAIN db \cap DOMAIN db' :
              OtherTagsOf(db'[i]) = OtherTagsOf(db[i]) ]_vars
====
